---------------------------- MODULE Spec2Model ----------------------------
(***************************************************************************)
(* Model of app.py: a FastAPI backend that creates "characters" (a base    *)
(* portrait written to the media directory plus a one-line reference       *)
(* record "<character_id>.ref.txt"), generates further images of a         *)
(* character, exposes a video route, serves downloads and lists a gallery. *)
(*                                                                         *)
(* Handlers are plain "def" routes, which FastAPI runs on a thread pool,   *)
(* so requests interleave at their I/O points.  A request that blocks on   *)
(* a file write is an element of the bag reqs; each action below is one    *)
(* stretch of a handler between two such points.                           *)
(***************************************************************************)
EXTENDS Integers, Sequences, FiniteSets, Bags, TLC

\* Number of distinct values uuid.uuid4() can produce in the model.
MaxUuid == 4
\* Number of requests that can be in progress at the same time.
MaxInflight == 2

Uuids == 1..MaxUuid

VARIABLES
    media,      \* MEDIA_DIR: file name -> file content, for the files present
    reqs,       \* the requests in progress: a bag of their locals and positions
    resp,       \* the response the last step sent to a client, NoResponse if none
    generated   \* history: artifact names in the order save_b64_image_to_file wrote them

vars == <<media, reqs, resp, generated>>

-----------------------------------------------------------------------------
\* File names.  A name is <<stem, part, ...>>: the uuid hex stem followed by
\* the dot-separated parts of its extension, so "<hex>.png" is <<u, "png">>
\* and "<hex>.ref.txt" is <<u, "ref", "txt">>.

NoName == <<>>

\* Path.suffix: the last dot-separated part, empty when there is none.
suffix(n) == IF Len(n) > 1 THEN n[Len(n)] ELSE ""

\* str.lower() on the suffixes that occur.
lower(s) ==
    CASE s = "PNG" -> "png"
      [] s = "JPG" -> "jpg"
      [] s = "JPEG" -> "jpeg"
      [] s = "MP4" -> "mp4"
      [] s = "TXT" -> "txt"
      [] OTHER -> s

\* The suffix set of home()'s filter.
GallerySuffixes == {"png", "jpg", "jpeg", "mp4"}

\* Python's string order on the suffixes the gallery lists.
SuffixOrder == <<"jpeg", "jpg", "mp4", "png">>
SuffixRank(s) == CHOOSE i \in 1..Len(SuffixOrder) : SuffixOrder[i] = s

\* a < b for two listed "<hex>.<suffix>" names: hex stems have equal length,
\* so the stems decide and the suffix breaks a tie.
NameLess(a, b) ==
    \/ a[1] < b[1]
    \/ a[1] = b[1] /\ SuffixRank(suffix(a)) < SuffixRank(suffix(b))

\* sorted(..., reverse=True).
RECURSIVE sorted_desc(_)
sorted_desc(S) ==
    IF S = {} THEN <<>>
    ELSE LET m == CHOOSE x \in S : \A y \in S \ {x} : NameLess(y, x)
         IN  <<m>> \o sorted_desc(S \ {m})

\* sorted(): the ascending sequence of the names in S.
RECURSIVE sorted(_)
sorted(S) ==
    IF S = {} THEN <<>>
    ELSE LET m == CHOOSE x \in S : \A y \in S \ {x} : NameLess(x, y)
         IN  <<m>> \o sorted(S \ {m})

\* uuid4 with no regard for the values in use.
uuid4_repeat(used) == Uuids

\* uuid.uuid4(): the values it can return next, given the values in use.
\* uuid4 draws 122 random bits; the model takes its contract, uniqueness, in
\* a weak form: a value differs from those that name a file on disk or are
\* held by a request in progress.
uuid4(used) == Uuids \ used

\* id_file without the uuid: every artifact gets the same name.
id_file_fixed(u, ext) == <<1, ext>>

\* id_file(ext) given the uuid4 value u it drew.
id_file(u, ext) == <<u, ext>>

\* character_ref_path(character_id), relative to MEDIA_DIR.
character_ref_path(character_id) == <<character_id, "ref", "txt">>

\* Names a client can ask download_file for.
Names == {id_file(u, "png") : u \in Uuids} \cup {character_ref_path(u) : u \in Uuids}

-----------------------------------------------------------------------------
\* File contents.  An image file holds decoded bytes.  A text file holds a
\* sequence of tokens, each a run of whitespace or a file name.

Ws == [ws |-> TRUE, name |-> NoName]
Word(n) == [ws |-> FALSE, name |-> n]

ImageFile(raw) == [kind |-> "bytes", raw |-> raw, text |-> <<>>]
TextFile(t) == [kind |-> "text", raw |-> "", text |-> t]

\* str.strip(): drop leading and trailing whitespace.
RECURSIVE lstrip(_)
lstrip(t) == IF t # <<>> /\ Head(t).ws THEN lstrip(Tail(t)) ELSE t
RECURSIVE rstrip(_)
rstrip(t) ==
    IF t # <<>> /\ t[Len(t)].ws THEN rstrip(SubSeq(t, 1, Len(t) - 1)) ELSE t
strip(t) == rstrip(lstrip(t))

exists(n) == n \in DOMAIN media

\* The directory after writing content c to the file named n.
write(n, c) == [x \in DOMAIN media \cup {n} |-> IF x = n THEN c ELSE media[x]]

\* MEDIA_DIR / ref_filename for the stripped text of a reference record.
RefPath(t) == IF Len(t) = 1 THEN t[1].name ELSE NoName

\* get_character_ref that finds no record.
get_character_ref_blank(character_id) == <<>>

\* get_character_ref without the strip().
get_character_ref_nostrip(character_id) ==
    LET p == character_ref_path(character_id)
    IN  IF ~exists(p) THEN <<>> ELSE media[p].text

\* get_character_ref(character_id): the stripped record text, <<>> for None.
get_character_ref(character_id) ==
    LET p == character_ref_path(character_id)
    IN  IF ~exists(p) THEN <<>> ELSE strip(media[p].text)

-----------------------------------------------------------------------------
\* The upstream API.  A call raises, or returns an image as the base64 text
\* data[0].b64_json (gpt-image-1 always answers in that form).

B64 == {"aW1nQQ=="}
Raises == "raise"
UpstreamOutcomes == B64 \cup {Raises}

\* base64.b64decode on the payloads above.
b64decode(b) ==
    CASE b = "aW1nQQ==" -> "imgA"

-----------------------------------------------------------------------------
\* Requests and responses.

\* The locals of a request in progress: create_character between its writes
\* (pc "setref", "write"), generate_image_same_face after its lookup ("edit").
Request(op, pc, character_id, ref, filename) ==
    [op |-> op, pc |-> pc, character_id |-> character_id, ref |-> ref,
     filename |-> filename]

InProgress == BagToSet(reqs)
CanAccept == BagCardinality(reqs) < MaxInflight
Begin(r) == reqs (+) SetToBag({r})
End(r) == reqs (-) SetToBag({r})

\* A response: the status ("ok", an HTTPException's code, or the kind of an
\* exception that leaves the handler) and the fields of the JSON body.
Response(op, status, character_id, filename, method, items) ==
    [op |-> op, status |-> status, character_id |-> character_id,
     filename |-> filename, method |-> method, items |-> items]

NoResponse == Response("none", "none", 0, NoName, "", <<>>)

\* What leaves a handler when an upstream call raises outside a try.
UpstreamError == "UpstreamError"

\* The character ids in use: those with a record, and those drawn at line 104
\* by a create_character in progress.
UsedCharacterIds ==
    {c \in Uuids : character_ref_path(c) \in DOMAIN media}
        \cup {r.character_id : r \in {t \in InProgress : t.op = "create"}}

\* The stems of artifact names in use: those of the files written, and those
\* id_file returned to a request in progress.
UsedFileStems ==
    {n[1] : n \in {m \in DOMAIN media : Len(m) = 2}}
        \cup {r.filename[1] : r \in {t \in InProgress : t.filename # NoName}}

\* Every uuid4 value in use.
UsedUuids == UsedCharacterIds \cup UsedFileStems

Init ==
    /\ media = << >>
    /\ reqs = EmptyBag
    /\ resp = NoResponse
    /\ generated = <<>>


-----------------------------------------------------------------------------
\* save_b64_image_to_file writing under another suffix than the one named.
save_b64_image_to_file_elsewhere(b64_json, out_path) ==
    write(<<out_path[1], "jpg">>, ImageFile(b64decode(b64_json)))

\* save_b64_image_to_file(b64_json, out_path): the directory afterwards.
save_b64_image_to_file(b64_json, out_path) ==
    write(out_path, ImageFile(b64decode(b64_json)))

-----------------------------------------------------------------------------
\* POST /api/character/create

\* create_character with set_character_ref moved ahead of the upstream call.
create_character_generate_record_first ==
    /\ CanAccept
    /\ \E character_id \in uuid4(UsedUuids), out \in UpstreamOutcomes :
         \E u \in uuid4(UsedUuids \cup {character_id}) :
           LET filename == id_file(u, "png")
               recorded == write(character_ref_path(character_id),
                                 TextFile(<<Word(filename)>>))
           IN  IF out = Raises
               THEN /\ resp' = Response("create", UpstreamError, character_id,
                                        NoName, "", <<>>)
                    /\ media' = recorded
                    /\ UNCHANGED <<reqs, generated>>
               ELSE /\ media' = [x \in DOMAIN recorded \cup {filename} |->
                                   IF x = filename
                                   THEN ImageFile(b64decode(out))
                                   ELSE recorded[x]]
                    /\ generated' = Append(generated, filename)
                    /\ reqs' = Begin(Request("create", "setref", character_id,
                                             NoName, filename))
                    /\ resp' = NoResponse

\* Lines 104-120: draw the character id, call images.generate, name the file
\* and write the portrait.  The upstream call touches nothing the other
\* requests see, so it is taken in one step with the write that follows it.
create_character_generate ==
    /\ CanAccept
    /\ \E character_id \in uuid4(UsedUuids), out \in UpstreamOutcomes :
         IF out = Raises
         THEN /\ resp' = Response("create", UpstreamError, character_id, NoName,
                                  "", <<>>)
              /\ UNCHANGED <<media, reqs, generated>>
         ELSE \E u \in uuid4(UsedUuids \cup {character_id}) :
                LET filename == id_file(u, "png")
                IN  /\ media' = save_b64_image_to_file(out, filename)
                    /\ generated' = Append(generated, filename)
                    /\ reqs' = Begin(Request("create", "setref", character_id,
                                             NoName, filename))
                    /\ resp' = NoResponse

\* Line 123, set_character_ref, first half: write_text opens the record
\* for writing, which creates it or truncates it to empty.
set_character_ref_open(r) ==
    /\ r.op = "create" /\ r.pc = "setref"
    /\ media' = write(character_ref_path(r.character_id), TextFile(<<>>))
    /\ reqs' = End(r) (+) SetToBag({[r EXCEPT !.pc = "write"]})
    /\ resp' = NoResponse
    /\ UNCHANGED generated

\* Line 123, second half, and lines 125-129: the file name reaches the
\* record and the handler returns.
set_character_ref_write(r) ==
    /\ r.op = "create" /\ r.pc = "write"
    /\ media' = write(character_ref_path(r.character_id),
                      TextFile(<<Word(r.filename)>>))
    /\ resp' = Response("create", "ok", r.character_id, r.filename, "", <<>>)
    /\ reqs' = End(r)
    /\ UNCHANGED generated

-----------------------------------------------------------------------------
\* POST /api/character/{character_id}/image

\* Lines 145-158: look the character up.
generate_image_lookup(character_id) ==
    /\ CanAccept
    /\ LET ref_filename == get_character_ref(character_id)
           ref_path == RefPath(ref_filename)
       IN  IF ref_filename = <<>>
           THEN /\ resp' = Response("image", "404", character_id, NoName, "", <<>>)
                /\ UNCHANGED reqs
           ELSE IF ~exists(ref_path)
           THEN /\ resp' = Response("image", "500", character_id, NoName, "", <<>>)
                /\ UNCHANGED reqs
           ELSE /\ reqs' = Begin(Request("image", "edit", character_id,
                                        ref_path, NoName))
                /\ resp' = NoResponse
    /\ UNCHANGED <<media, generated>>

\* Lines 161-171: whether control reaches the except branch.
EditFailed(r, edit) == edit = Raises \/ ~exists(r.ref)

\* Lines 170 and 179: the method tag of the response.
MethodTagSwapped(failed) == IF failed THEN "reference-image" ELSE "text-fallback"
MethodTag(failed) == IF failed THEN "text-fallback" ELSE "reference-image"

\* Lines 160-190: images.edit with the reference image, images.generate in
\* the except branch, then the write and the return.  open() on a missing
\* reference raises inside the try, like the edit call itself.  edit and
\* fallback are the outcomes of the two upstream calls.
generate_image_calls(r, edit, fallback) ==
    /\ r.op = "image" /\ r.pc = "edit"
    /\ LET failed == EditFailed(r, edit)
           b64_json == IF failed THEN fallback ELSE edit
           method == MethodTag(failed)
       IN  IF b64_json = Raises
           THEN /\ resp' = Response("image", UpstreamError, r.character_id,
                                    NoName, "", <<>>)
                /\ UNCHANGED <<media, generated>>
           ELSE \E u \in uuid4(UsedUuids) :
                  LET filename == id_file(u, "png")
                  IN  /\ media' = save_b64_image_to_file(b64_json, filename)
                      /\ generated' = Append(generated, filename)
                      /\ resp' = Response("image", "ok", r.character_id,
                                          filename, method, <<>>)
    /\ reqs' = End(r)

generate_image_generate(r) ==
    \E edit \in UpstreamOutcomes, fallback \in UpstreamOutcomes :
        generate_image_calls(r, edit, fallback)

-----------------------------------------------------------------------------
\* POST /api/character/{character_id}/video, lines 205-237.  The handler
\* writes nothing; video stands for the outcome of client.videos.generate.
VideoOutcomes == {"ok", Raises}

\* The video route as a stub that answers 501 whatever it is asked.
generate_video_always_501(character_id, video) ==
    /\ resp' = Response("video", "501", character_id, NoName, "", <<>>)
    /\ UNCHANGED <<media, reqs, generated>>

generate_video_same_face(character_id, video) ==
    /\ LET ref_filename == get_character_ref(character_id)
           ref_path == RefPath(ref_filename)
           status == IF ref_filename = <<>> THEN "404"
                     ELSE IF ~exists(ref_path) THEN "500"
                     ELSE IF video = Raises THEN "501"
                     ELSE "ok"
       IN  resp' = Response("video", status, character_id, NoName, "", <<>>)
    /\ UNCHANGED <<media, reqs, generated>>

-----------------------------------------------------------------------------
\* download_file with the existence check inverted.
download_file_inverted(filename) ==
    /\ resp' = Response("download", IF exists(filename) THEN "404" ELSE "ok",
                        0, filename, "", <<>>)
    /\ UNCHANGED <<media, reqs, generated>>

\* GET /api/download/{filename}, lines 245-248.
download_file(filename) ==
    /\ resp' = Response("download", IF exists(filename) THEN "ok" ELSE "404",
                        0, filename, "", <<>>)
    /\ UNCHANGED <<media, reqs, generated>>

\* GET /, lines 86-90: the sorted names with a gallery suffix.
GalleryItems ==
    sorted({n \in DOMAIN media : lower(suffix(n)) \in GallerySuffixes})

home ==
    /\ resp' = Response("home", "ok", 0, NoName, "", GalleryItems)
    /\ UNCHANGED <<media, reqs, generated>>

-----------------------------------------------------------------------------
Next ==
    \/ create_character_generate
    \/ \E r \in InProgress : set_character_ref_open(r)
    \/ \E r \in InProgress : set_character_ref_write(r)
    \/ \E c \in Uuids : generate_image_lookup(c)
    \/ \E r \in InProgress : generate_image_generate(r)
    \/ \E c \in Uuids, v \in VideoOutcomes : generate_video_same_face(c, v)
    \/ \E n \in Names : download_file(n)
    \/ home

Spec == Init /\ [][Next]_vars

-----------------------------------------------------------------------------
\* The media directory outlives the process: MEDIA_DIR.mkdir(exist_ok=True)
\* at line 24 keeps what it finds.  SeedDisks are directories a start can
\* find: a record for character 1 that is empty, blank, or names 2.png with
\* or without blanks around it, and 2.png itself present or lost.
SeedName == id_file(2, "png")
SeedTexts ==
    {<<>>, <<Ws>>, <<Word(SeedName)>>, <<Ws, Word(SeedName), Ws>>}
SeedDisks ==
    {[n \in {character_ref_path(1)} |-> TextFile(t)] : t \in SeedTexts}
        \cup {[n \in {character_ref_path(1), SeedName} |->
                  IF n = SeedName THEN ImageFile("imgA")
                  ELSE TextFile(t)] : t \in SeedTexts}

InitDisk ==
    /\ media \in SeedDisks
    /\ reqs = EmptyBag
    /\ resp = NoResponse
    /\ generated = <<>>

SpecDisk == InitDisk /\ [][Next]_vars


-----------------------------------------------------------------------------
\* Vocabulary of the properties, read off the directory itself.

Range(q) == {q[i] : i \in 1..Len(q)}
Reverse(q) == [i \in 1..Len(q) |-> q[Len(q) + 1 - i]]

IsArtifact(n) == Len(n) = 2
IsRecord(n) == Len(n) = 3

\* The text of a character's record, empty when there is no record.
RecordText(c) ==
    IF character_ref_path(c) \in DOMAIN media
    THEN media[character_ref_path(c)].text ELSE <<>>

\* The character is unknown: no record, or a record with nothing but blanks.
Unknown(c) == \A i \in 1..Len(RecordText(c)) : RecordText(c)[i].ws

\* The files a character's record names.
Named(c) ==
    {RecordText(c)[i].name : i \in {j \in 1..Len(RecordText(c)) : ~RecordText(c)[j].ws}}

\* The record names a file that is not in the directory.
RefMissing(c) == ~Unknown(c) /\ \E n \in Named(c) : n \notin DOMAIN media

Errors == {"404", "500", "501", UpstreamError}

-----------------------------------------------------------------------------
\* C1 as stated: an image request for a created character is accepted and
\* succeeds with an artifact name that is new to the media directory, and an
\* image request for an id with no record fails with 404.
C1_Original ==
    [][ /\ \A c \in Uuids : generate_image_lookup(c) =>
              /\ ~Unknown(c) => resp'.status \notin {"404", "500"}
              /\ character_ref_path(c) \notin DOMAIN media => resp'.status = "404"
        /\ \A r \in InProgress : generate_image_generate(r) =>
              /\ resp'.status = "ok"
              /\ resp'.filename \notin DOMAIN media
              /\ resp'.filename \in DOMAIN media'
      ]_vars

\* C1 amended: an image request for a created character never fails with
\* 404 or 500; it ends either in success with an artifact name that was not
\* in the media directory and now is, or, when both upstream calls raised, in
\* that exception with the directory untouched.  An image request for an id
\* with no record fails with 404.
C1_Amended ==
    [][ /\ \A c \in Uuids : generate_image_lookup(c) =>
              /\ ~Unknown(c) => resp'.status \notin {"404", "500"}
              /\ ~Unknown(c) => reqs' # reqs
              /\ character_ref_path(c) \notin DOMAIN media =>
                     resp'.status = "404" /\ reqs' = reqs
        /\ \A r \in InProgress : generate_image_generate(r) =>
              \/ /\ resp'.status = "ok"
                 /\ resp'.character_id = r.character_id
                 /\ resp'.filename \notin DOMAIN media
                 /\ DOMAIN media' = DOMAIN media \cup {resp'.filename}
              \/ /\ resp'.status = UpstreamError
                 /\ media' = media
      ]_vars

\* C1's case: an image request for a created character has just succeeded.
C1_Witness ==
    /\ resp.op = "image" /\ resp.status = "ok"
    /\ ~Unknown(resp.character_id)
    /\ Len(generated) >= 2

\* C2 as stated: whenever the edit call fails the request still succeeds
\* with method "text-fallback", and the method is "reference-image" exactly
\* when the edit call succeeded.
C2_Original ==
    [][ \A r \in InProgress, e \in UpstreamOutcomes, f \in UpstreamOutcomes :
          generate_image_calls(r, e, f) =>
              /\ e = Raises => resp'.status = "ok" /\ resp'.method = "text-fallback"
              /\ resp'.status = "ok" =>
                     (resp'.method = "reference-image" <=> e # Raises)
      ]_vars

\* C2 amended: when the edit call fails and the fallback generate call
\* returns an image, the request succeeds with a new artifact and method
\* "text-fallback"; when the fallback raises too, the request ends in that
\* exception and writes nothing; a successful response carries method
\* "reference-image" exactly when the edit call succeeded.
C2_Amended ==
    [][ \A r \in InProgress, e \in UpstreamOutcomes, f \in UpstreamOutcomes :
          generate_image_calls(r, e, f) =>
              /\ e = Raises /\ f \in B64 =>
                     /\ resp'.status = "ok" /\ resp'.method = "text-fallback"
                     /\ resp'.filename \in DOMAIN media' \ DOMAIN media
              /\ e = Raises /\ f = Raises =>
                     resp'.status = UpstreamError /\ media' = media
              /\ resp'.status = "ok" =>
                     (resp'.method = "reference-image" <=> e # Raises)
      ]_vars

\* C2's case: an image request has just succeeded through the fallback.
C2_Witness ==
    resp.op = "image" /\ resp.status = "ok" /\ resp.method = "text-fallback"

\* C3 as stated: every response of the video route is a 501.
C3_Original == resp.op = "video" => resp.status = "501"

\* C3 amended: in every state the system's own operations reach, the video
\* route fails with 404 for an unknown character; for a created character it
\* fails with 501 when the upstream video call raises and answers ok when
\* that call returns.  It never changes the media directory.
C3_Amended ==
    [][ \A c \in Uuids, v \in VideoOutcomes : generate_video_same_face(c, v) =>
          /\ resp'.status =
                 IF Unknown(c) THEN "404"
                 ELSE IF v = Raises THEN "501"
                 ELSE "ok"
          /\ media' = media /\ reqs' = reqs
      ]_vars

\* C3's case: the video route has just answered 501 for a created character.
C3_Witness ==
    resp.op = "video" /\ resp.status = "501" /\ ~Unknown(resp.character_id)

\* C4 as stated: the gallery lists the N artifacts generated so far, newest
\* first.
C4_Original ==
    resp.op = "home" =>
        /\ Len(resp.items) = Len(generated)
        /\ resp.items = Reverse(generated)

\* C4 amended: the gallery lists exactly the N artifacts generated so far and
\* no reference record, in ascending order of file name, whatever the order
\* in which they were generated.
C4_Amended ==
    resp.op = "home" =>
        /\ Len(resp.items) = Len(generated)
        /\ Range(resp.items) = Range(generated)
        /\ \A i \in 1..Len(resp.items) : IsArtifact(resp.items[i])
        /\ \A i \in 1..Len(resp.items), j \in 1..Len(resp.items) :
               i < j => resp.items[i][1] < resp.items[j][1]

\* C4's case: the gallery has just been listed with two artifacts and a
\* reference record in the directory.
C4_Witness ==
    /\ resp.op = "home" /\ Len(resp.items) >= 2
    /\ \E n \in DOMAIN media : IsRecord(n)

\* C5 as stated: a download succeeds exactly for the artifacts the generator
\* wrote; any other name, a reference record included, gets a 404.
C5_Original ==
    resp.op = "download" =>
        /\ resp.status \in {"ok", "404"}
        /\ resp.status = "ok" <=> resp.filename \in Range(generated)

\* C5 amended: a download answers 404 exactly when the media directory holds
\* no file of that name; it serves every file there is: the artifacts the
\* generator wrote and also the reference records.
C5_Amended ==
    resp.op = "download" =>
        /\ resp.status \in {"ok", "404"}
        /\ resp.status = "ok" <=>
               \/ resp.filename \in Range(generated)
               \/ IsRecord(resp.filename) /\ resp.filename \in DOMAIN media

\* C5's case: a reference record has just been downloaded.
C5_Witness ==
    resp.op = "download" /\ resp.status = "ok" /\ IsRecord(resp.filename)

\* C6: every generation writes its artifact under a name that no artifact
\* written before carries, whether the earlier generation has finished or is
\* still in progress; so no step changes or removes an artifact once it is
\* written.
C6_DistinctArtifacts ==
    [][ /\ \A n \in DOMAIN media :
              IsArtifact(n) => n \in DOMAIN media' /\ media'[n] = media[n]
        /\ generated' # generated =>
              \E n \in DOMAIN media' \ DOMAIN media :
                  /\ generated' = Append(generated, n)
                  /\ n \notin Range(generated)
      ]_vars

\* C6's case: two create_character requests are in progress at once, each
\* having written its portrait.
C6_Witness ==
    /\ BagCardinality(reqs) >= 2
    /\ \A r \in InProgress : r.op = "create"
    /\ Len(generated) >= 2

\* C7: in every state the system's own operations reach, a reference record
\* that reads as non-empty names a file that is in the media directory, and
\* no image request is answered with the 500 "reference missing" error.
C7_RefsExist ==
    /\ \A c \in Uuids : ~RefMissing(c)
    /\ ~(resp.op = "image" /\ resp.status = "500")

\* C7's case: one character has a readable record while another
\* create_character is between opening and writing its own record.
C7_Witness ==
    /\ \E c \in Uuids : ~Unknown(c)
    /\ \E r \in InProgress : r.op = "create" /\ r.pc = "write"

\* C8: a reference record, once it holds a file name, is never changed or
\* removed by any step of any request; a record that exists is never removed.
C8_RefImmutable ==
    [][ \A c \in Uuids :
          /\ character_ref_path(c) \in DOMAIN media =>
                 character_ref_path(c) \in DOMAIN media'
          /\ ~Unknown(c) =>
                 media'[character_ref_path(c)] = media[character_ref_path(c)]
      ]_vars

\* C8's case: a second character has been created after the first, and both
\* records are in place.
C8_Witness ==
    /\ resp.op = "create" /\ resp.status = "ok"
    /\ \E c \in Uuids, d \in Uuids : c # d /\ ~Unknown(c) /\ ~Unknown(d)

\* C9: an image request fails with 404 exactly when the character is unknown
\* (no record, or a record that is empty or blank), even if the file is
\* missing as well; it fails with 500 exactly when the record names a file
\* that is missing; in both cases no request is left in progress, so no
\* upstream call follows; in every other case the request goes on to its
\* upstream calls without answering yet.
C9_LookupErrors ==
    [][ \A c \in Uuids : generate_image_lookup(c) =>
          /\ Unknown(c) => resp'.status = "404" /\ reqs' = reqs
          /\ RefMissing(c) => resp'.status = "500" /\ reqs' = reqs
          /\ ~Unknown(c) /\ ~RefMissing(c) =>
                 /\ resp' = NoResponse
                 /\ reqs' = reqs (+) SetToBag({Request("image", "edit", c,
                                       CHOOSE n \in Named(c) : TRUE, NoName)})
          /\ media' = media
      ]_vars

\* C9's case: an image request has just been answered 500 for a record whose
\* file is missing.
C9_Witness ==
    /\ resp.op = "image" /\ resp.status = "500"
    /\ RefMissing(resp.character_id)

\* C10: a step that answers with an error (404, 500, 501 or an upstream
\* exception), and any answer of the video route, leaves the media directory
\* as it was; and a reference record is never there without its image: the
\* portrait of every create_character in progress is on disk, and so is the
\* file every readable record names.
C10_ErrorsWriteNothing ==
    /\ [][ resp'.status \in Errors \/ resp'.op = "video" =>
               media' = media /\ generated' = generated ]_vars
    /\ [](/\ \A r \in InProgress : r.op = "create" => r.filename \in DOMAIN media
          /\ \A c \in Uuids :
                 character_ref_path(c) \in DOMAIN media =>
                     \/ ~Unknown(c) /\ Named(c) \subseteq DOMAIN media
                     \/ \E r \in InProgress :
                            r.op = "create" /\ r.character_id = c /\ r.pc = "write")

\* C10's case: a create_character has just failed on its upstream call while
\* another character's record and portrait are in place.
C10_Witness ==
    /\ resp.op = "create" /\ resp.status = UpstreamError
    /\ \E c \in Uuids : ~Unknown(c)

=============================================================================
